---- MODULE Spec2Model ----
(***************************************************************************)
(* Model of src/linsys.py (class LinearSystem and its Gaussian elimination)*)
(* together with the leading-nonzero lookup of src/plane.py / src/line.py. *)
(*                                                                         *)
(* Scalars are Python Decimals.  A Decimal is modelled by its value        *)
(* <<c, e>> = c * 10^e with c not divisible by ten (zero is <<0, 0>>), so  *)
(* that equality of models is Decimal's numeric ==.  Every arithmetic      *)
(* result is rounded to Prec significant digits, ties to even, as the      *)
(* decimal context of linsys.py:7 does.  Rows and columns are numbered     *)
(* from 1 here and from 0 in the source; the "no pivot" sentinel -1 of the *)
(* source is kept.                                                         *)
(***************************************************************************)
EXTENDS Integers, Sequences, FiniteSets, TLC

\* heap[r]: the planes list of the LinearSystem object r (<<>>: no such object);
\* object 1 is the caller's system s, ret the object the last transform
\* returned (0: none), dimension[r] its dimension attribute, solution the
\* value compute_solution returned, error the message of the exception the
\* last call raised, last the last call and the heap before it, frame the
\* position (pc) and the local variables i and j of a compute_triangular_form
\* that is running, step by step, on the copy heap[2].
VARIABLES heap, ret, dimension, solution, error, last, nops, ncalls, frame

vars == <<heap, ret, dimension, solution, error, last, nops, ncalls, frame>>

(***************************************************************************)
(* Bounds of the model.  The source computes with 30 digits and the        *)
(* tolerance 1e-10; the model keeps the same arithmetic with Prec digits   *)
(* and the tolerance 10^-EpsExp so that coefficients fit TLC's integers.   *)
(***************************************************************************)
Prec == 3
EpsExp == 1
MaxRows == 2
MaxOps == 1
MaxCalls == 1
MaxSolveCalls == 2

\* Plane.dimension and Line.dimension
PlaneDimension == 3
LineDimension == 2

(***************************************************************************)
(* Decimal arithmetic                                                      *)
(***************************************************************************)
\* 10^n for the exponents the arithmetic uses
Pow10(n) ==
  IF n <= 0 THEN 1
  ELSE <<10, 100, 1000, 10000, 100000, 1000000, 10000000, 100000000,
         1000000000>>[n]

Abs(x) == IF x < 0 THEN -x ELSE x

Sign(x) == IF x < 0 THEN -1 ELSE 1

\* the number of decimal digits of c >= 0
Digits(c) ==
  IF c < 10 THEN 1 ELSE IF c < 100 THEN 2 ELSE IF c < 1000 THEN 3
  ELSE IF c < 10000 THEN 4 ELSE IF c < 100000 THEN 5
  ELSE IF c < 1000000 THEN 6 ELSE IF c < 10000000 THEN 7
  ELSE IF c < 100000000 THEN 8 ELSE IF c < 1000000000 THEN 9 ELSE 10

\* the number of trailing zero digits of c # 0
TrailingZeros(c) ==
  IF c % 10 # 0 THEN 0 ELSE IF c % 100 # 0 THEN 1 ELSE IF c % 1000 # 0 THEN 2
  ELSE IF c % 10000 # 0 THEN 3 ELSE IF c % 100000 # 0 THEN 4
  ELSE IF c % 1000000 # 0 THEN 5 ELSE IF c % 10000000 # 0 THEN 6
  ELSE IF c % 100000000 # 0 THEN 7 ELSE IF c % 1000000000 # 0 THEN 8 ELSE 9

Strip(c, e, z) == <<Sign(c) * (Abs(c) \div Pow10(z)), e + z>>

\* the canonical representative of c * 10^e
Norm(c, e) == IF c = 0 THEN <<0, 0>> ELSE Strip(c, e, TrailingZeros(c))

\* ROUND_HALF_EVEN of sign * (q + r / (2 * half)) * 10^e
HalfEven(sign, q, r, half, e) ==
  Norm(sign * (IF r > half \/ (r = half /\ q % 2 = 1) THEN q + 1 ELSE q), e)

\* the digits of c beyond Prec
Excess(c) == IF Digits(Abs(c)) > Prec THEN Digits(Abs(c)) - Prec ELSE 0

RoundExcess(c, e, d) ==
  HalfEven(Sign(c), Abs(c) \div Pow10(d), Abs(c) % Pow10(d), 5 * Pow10(d - 1), e + d)

\* context rounding of the exact value c * 10^e: ROUND_HALF_EVEN to Prec digits
Round(c, e) == RoundExcess(c, e, Excess(c))

Zero == <<0, 0>>
One == <<1, 0>>

Dec(n) == Round(n, 0)

\* Decimal.__neg__: the opposite, rounded as every result is
Neg(a) == Round(-a[1], a[2])

\* position of the leading digit
Adjusted(a) == a[2] + Digits(Abs(a[1])) - 1

Times(a, b) == Round(a[1] * b[1], a[2] + b[2])

\* the exact sum of a and b, written with the exponent e of the lower one
PlusAt(a, b, e) == Round(a[1] * Pow10(a[2] - e) + b[1] * Pow10(b[2] - e), e)

\* b lies below the last digit of a and below the digits the context keeps
FarBelow(b, a) == Adjusted(a) - Adjusted(b) >= Prec + 2 /\ Adjusted(b) < a[2]

\* the rounded sum of a and such a b: b counts by its sign only, and only
\* when a has digits to round away
PlusFarBelow(a, b) ==
  IF Digits(Abs(a[1])) <= Prec THEN a
  ELSE Round(100 * a[1] + Sign(b[1]), a[2] - 2)

\* Decimal.__add__: the exact sum, rounded; a zero operand leaves the other
\* one, rounded
Plus(a, b) ==
  IF a[1] = 0 THEN Round(b[1], b[2])
  ELSE IF b[1] = 0 THEN Round(a[1], a[2])
  ELSE IF FarBelow(b, a) THEN PlusFarBelow(a, b)
  ELSE IF FarBelow(a, b) THEN PlusFarBelow(b, a)
  ELSE PlusAt(a, b, IF a[2] < b[2] THEN a[2] ELSE b[2])

Minus(a, b) == Plus(a, Neg(b))

\* the digits of d * 10^(Prec - 1) beyond those of n
ShiftDigits(n, d) == Digits(d) + Prec - 1 - Digits(n)

ShiftFrom(n, d, k) ==
  IF k < 0 THEN 0
  ELSE IF n * Pow10(k) >= d * Pow10(Prec - 1) THEN k ELSE k + 1

\* smallest k >= 0 with n * 10^k >= d * 10^(Prec - 1)
Shift(n, d) == ShiftFrom(n, d, ShiftDigits(n, d))

\* the quotient q and the remainder r of a division by d, rounded: the x
\* digits of q beyond Prec are rounded away with the remainder
DivideRound(sign, q, r, d, x, e) ==
  HalfEven(sign, q \div Pow10(x), 2 * ((q % Pow10(x)) * d + r), d * Pow10(x), e + x)

\* the quotient n * 10^k / d, of Prec digits or more, rounded
DivideAt(sign, n, d, k, e) ==
  DivideRound(sign, (n * Pow10(k)) \div d, (n * Pow10(k)) % d, d,
              Excess((n * Pow10(k)) \div d), e - k)

\* Decimal.__truediv__ (b is not zero): the correctly rounded quotient
Divide(a, b) ==
  IF a[1] = 0 THEN Zero
  ELSE DivideAt(Sign(a[1]) * Sign(b[1]), Abs(a[1]), Abs(b[1]),
                Shift(Abs(a[1]), Abs(b[1])), a[2] - b[2])

\* MyDecimal.is_near_zero: abs(self) < 1e-10.  The float 1e-10 lies just
\* above the decimal 10^-10, so the decimal 10^-10 itself is near zero.
IsNearZero(a) ==
  \/ a[1] = 0
  \/ Adjusted(a) < -EpsExp
  \/ (Abs(a[1]) = 1 /\ a[2] = -EpsExp)

(***************************************************************************)
(* Vector and Hyperplane, as LinearSystem uses them                        *)
(***************************************************************************)
\* Vector.times_scalar
TimesScalar(v, c) == [x \in 1..Len(v) |-> Times(c, v[x])]

\* Vector.plus
VPlus(v, w) == [x \in 1..Len(v) |-> Plus(v[x], w[x])]

\* Hyperplane(normal_vector=..., constant_term=...)
Hyperplane(normal_vector, constant_term) ==
  [normal_vector |-> normal_vector, constant_term |-> constant_term]

Dimension(p) == Len(p.normal_vector)

\* first_nonzero_index: the first coordinate that is not near zero; the
\* 'No nonzero elements found' exception is the value NoNonzeroElts
NoNonzeroElts == -1

RECURSIVE FirstNonzeroFrom(_, _)
FirstNonzeroFrom(iterable, k) ==
  IF k > Len(iterable) THEN NoNonzeroElts
  ELSE IF ~IsNearZero(iterable[k]) THEN k
  ELSE FirstNonzeroFrom(iterable, k + 1)

FirstNonzeroIndex(iterable) == FirstNonzeroFrom(iterable, 1)

(***************************************************************************)
(* LinearSystem: the row operations.  planes is self.planes.               *)
(***************************************************************************)
PLANES_SAME_DIM_MSG == "Hyperplanes in the system should live in the same dim."
NO_SOLUTIONS_MSG == "No solutions"
INF_SOLUTIONS_MSG == "Infinitely many solutions"

\* __init__: the dimension check over the planes given
SameDimension(planes) == \A i \in 1..Len(planes) : Dimension(planes[i]) = Dimension(planes[1])

SetItemAcceptsAny(dim, x) == TRUE

\* __setitem__: TRUE when the assert passes
SetItemAccepts(dim, x) == Dimension(x) = dim

SetItem(planes, i, x) == [planes EXCEPT ![i] = x]

\* indices_of_first_nonzero_terms_in_each_row
IndicesOfFirstNonzeroTermsInEachRow(planes) ==
  [i \in 1..Len(planes) |-> FirstNonzeroIndex(planes[i].normal_vector)]

SwapRowsOverwrite(planes, row1, row2) ==
  SetItem(SetItem(planes, row1, planes[row2]), row2, planes[row2])

SwapRows(planes, row1, row2) ==
  SetItem(SetItem(planes, row1, planes[row2]), row2, planes[row1])

MultiplyCoefficientAddConstant(planes, coefficient, row) ==
  SetItem(planes, row,
          Hyperplane(TimesScalar(planes[row].normal_vector, coefficient),
                     Plus(planes[row].constant_term, coefficient)))

MultiplyCoefficientAndRow(planes, coefficient, row) ==
  SetItem(planes, row,
          Hyperplane(TimesScalar(planes[row].normal_vector, coefficient),
                     Times(planes[row].constant_term, coefficient)))

AddMultipleTimesRowToSource(planes, coefficient, from_here, to_here) ==
  SetItem(planes, from_here,
          Hyperplane(VPlus(TimesScalar(planes[from_here].normal_vector, coefficient),
                           planes[to_here].normal_vector),
                     Plus(Times(planes[from_here].constant_term, coefficient),
                          planes[to_here].constant_term)))

AddMultipleTimesRowToRow(planes, coefficient, from_here, to_here) ==
  SetItem(planes, to_here,
          Hyperplane(VPlus(TimesScalar(planes[from_here].normal_vector, coefficient),
                           planes[to_here].normal_vector),
                     Plus(Times(planes[from_here].constant_term, coefficient),
                          planes[to_here].constant_term)))

(***************************************************************************)
(* Triangular form                                                         *)
(***************************************************************************)
RowBelowLast(planes, k, col) ==
  IF \A m \in k..Len(planes) : IsNearZero(planes[m].normal_vector[col]) THEN 0
  ELSE CHOOSE m \in k..Len(planes) :
         /\ ~IsNearZero(planes[m].normal_vector[col])
         /\ \A n \in m + 1..Len(planes) : IsNearZero(planes[n].normal_vector[col])

\* the first row k > row whose coefficient in column col is not near zero
\* (0 when the loop of swap_with_row_below runs out)
RECURSIVE RowBelowFrom(_, _, _)
RowBelowFrom(planes, k, col) ==
  IF k > Len(planes) THEN 0
  ELSE IF ~IsNearZero(planes[k].normal_vector[col]) THEN k
  ELSE RowBelowFrom(planes, k + 1, col)

\* swap_with_row_below: the planes after the call and the value returned
SwapWithRowAt(planes, row, k) ==
  IF k > 0
  THEN [planes |-> SwapRows(planes, row, k), swap_succeeded |-> TRUE]
  ELSE [planes |-> planes, swap_succeeded |-> FALSE]

SwapWithRowBelow(planes, row, col) ==
  SwapWithRowAt(planes, row, RowBelowFrom(planes, row + 1, col))

\* the loop of clear_coefficients_below from row k on; beta was read before
RECURSIVE ClearBelowFrom(_, _, _, _, _)
ClearBelowFrom(planes, row, col, beta, k) ==
  IF k > Len(planes) THEN planes
  ELSE LET gamma == planes[k].normal_vector[col]
           alpha == Divide(Neg(gamma), beta)
       IN ClearBelowFrom(AddMultipleTimesRowToRow(planes, alpha, row, k),
                         row, col, beta, k + 1)

ClearCoefficientsBelow(planes, row, col) ==
  ClearBelowFrom(planes, row, col, planes[row].normal_vector[col], row + 1)

\* the loops of compute_triangular_form: row i, column cursor j
RECURSIVE TriangularFrom(_, _, _)
\* the body of the while loop once swap_with_row_below has returned
AfterSwap(swap, i, j) ==
  IF ~swap.swap_succeeded THEN TriangularFrom(swap.planes, i, j + 1)
  ELSE TriangularFrom(ClearCoefficientsBelow(swap.planes, i, j), i + 1, j + 1)

TriangularFrom(system, i, j) ==
  IF i > Len(system) THEN system
  ELSE IF j > Dimension(system[1]) THEN TriangularFrom(system, i + 1, j)
  ELSE IF IsNearZero(system[i].normal_vector[j])
       THEN AfterSwap(SwapWithRowBelow(system, i, j), i, j)
       ELSE TriangularFrom(ClearCoefficientsBelow(system, i, j), i + 1, j + 1)

\* compute_triangular_form, on the copy of self.planes
ComputeTriangularForm(planes) == TriangularFrom(planes, 1, 1)

(***************************************************************************)
(* Reduced row echelon form                                                *)
(***************************************************************************)
\* decimal.DivisionByZero, raised by Decimal('1.0') / 0 and caught nowhere:
\* the value of a transform that raised it instead of returning its planes
DivisionByZero == <<>>

ScaleRowToMakeCoefficientEqualOne(planes, row, col) ==
  IF planes[row].normal_vector[col] = Zero THEN DivisionByZero
  ELSE MultiplyCoefficientAndRow(planes,
         Divide(One, planes[row].normal_vector[col]), row)

\* the loop of clear_coefficients_above from row k down to the first row
RECURSIVE ClearAboveFrom(_, _, _, _)
ClearAboveFrom(planes, row, col, k) ==
  IF k < 1 THEN planes
  ELSE ClearAboveFrom(AddMultipleTimesRowToRow(
                        planes, Neg(planes[k].normal_vector[col]), row, k),
                      row, col, k - 1)

ClearCoefficientsAbove(planes, row, col) ==
  IF planes = DivisionByZero THEN planes
  ELSE ClearAboveFrom(planes, row, col, row - 1)

\* the loop of compute_rref over the rows, last to first; pivot_indices are
\* those of the triangular form
RECURSIVE RrefFrom(_, _, _)
RrefFrom(tf, pivot_indices, i) ==
  IF i < 1 \/ tf = DivisionByZero THEN tf
  ELSE IF pivot_indices[i] < 0 THEN RrefFrom(tf, pivot_indices, i - 1)
  ELSE RrefFrom(ClearCoefficientsAbove(
                  ScaleRowToMakeCoefficientEqualOne(tf, i, pivot_indices[i]),
                  i, pivot_indices[i]),
                pivot_indices, i - 1)

\* compute_rref after its first line: tf is the triangular form
ReduceTriangularForm(tf) ==
  RrefFrom(tf, IndicesOfFirstNonzeroTermsInEachRow(tf), Len(tf))

ComputeRref(planes) == ReduceTriangularForm(ComputeTriangularForm(planes))

(***************************************************************************)
(* Solutions                                                               *)
(***************************************************************************)
RaiseExceptionIfNearZeroConstant(planes) ==
  \E i \in 1..Len(planes) :
    /\ FirstNonzeroIndex(planes[i].normal_vector) = NoNonzeroElts
    /\ IsNearZero(planes[i].constant_term)

\* raise_exception_if_contradictory_equation: TRUE when it raises
RaiseExceptionIfContradictoryEquation(planes) ==
  \E i \in 1..Len(planes) :
    /\ FirstNonzeroIndex(planes[i].normal_vector) = NoNonzeroElts
    /\ ~IsNearZero(planes[i].constant_term)

NumPivots(pivot_indices) ==
  Cardinality({i \in 1..Len(pivot_indices) : pivot_indices[i] >= 0})

\* raise_exception_if_too_few_pivots: TRUE when it raises
RaiseExceptionIfTooFewPivots(planes) ==
  NumPivots(IndicesOfFirstNonzeroTermsInEachRow(planes)) < Dimension(planes[1])

\* iteration over a set of small integers: ascending
RECURSIVE Ascending(_)
Ascending(S) ==
  IF S = {} THEN <<>>
  ELSE LET m == CHOOSE x \in S : \A y \in S : x <= y
       IN <<m>> \o Ascending(S \ {m})

\* the loop over the planes that fills vector_coords, with its break at the
\* first row that has no pivot
RECURSIVE DirectionCoordsFrom(_, _, _, _, _)
DirectionCoordsFrom(planes, pivot_indices, free_var, vector_coords, i) ==
  IF i > Len(planes) THEN vector_coords
  ELSE IF pivot_indices[i] < 0 THEN vector_coords
  ELSE DirectionCoordsFrom(planes, pivot_indices, free_var,
         [vector_coords EXCEPT
            ![pivot_indices[i]] = Neg(planes[i].normal_vector[free_var])],
         i + 1)

\* the direction vectors, free variable by free variable
DirectionVectors(planes, pivot_indices, free_variable_indices) ==
  [f \in 1..Len(free_variable_indices) |->
     DirectionCoordsFrom(planes, pivot_indices, free_variable_indices[f],
       [x \in 1..Dimension(planes[1]) |->
          IF x = free_variable_indices[f] THEN One ELSE Zero], 1)]

\* set_add_entry: the free slot for a key that hashes to slot i.  The keys are
\* below 32, so the perturbation is zero after its first shift, and a table
\* of 8 slots is too short for linear probes
RECURSIVE SetProbe(_, _)
SetProbe(table, i) ==
  IF table[i + 1] < 0 THEN i ELSE SetProbe(table, (5 * i + 1) % Len(table))

SetInsert(table, key) ==
  [table EXCEPT ![SetProbe(table, key % Len(table)) + 1] = key]

\* the keys of a table in the order of its slots, which is the order of
\* iteration
SetIteration(table) == SelectSeq(table, LAMBDA key : key >= 0)

RECURSIVE SetInsertAll(_, _, _)
SetInsertAll(table, keys, i) ==
  IF i > Len(keys) THEN table
  ELSE SetInsertAll(SetInsert(table, keys[i]), keys, i + 1)

\* set_table_resize: the smallest power of two above minused, from 8
RECURSIVE SetNewSize(_, _)
SetNewSize(newsize, minused) ==
  IF newsize <= minused THEN SetNewSize(2 * newsize, minused) ELSE newsize

SetResize(keys) ==
  SetInsertAll([i \in 1..SetNewSize(8, 4 * Len(keys)) |-> -1], keys, 1)

\* set_add_key: insert, and resize once the table is three fifths full
SetGrow(table) ==
  IF 5 * Len(SetIteration(table)) >= 3 * (Len(table) - 1)
  THEN SetResize(SetIteration(table)) ELSE table

SetAddKey(table, key) == SetGrow(SetInsert(table, key))

RECURSIVE SetAddAll(_, _, _)
SetAddAll(table, keys, i) ==
  IF i > Len(keys) THEN table
  ELSE SetAddAll(SetAddKey(table, keys[i]), keys, i + 1)

\* set(range(num_variables)) - other, as CPython iterates it: a copy of the
\* first set without the keys of other when the first set is more than four
\* times larger, else a new set filled with the keys that are not in other
SetDifference(num_variables, other) ==
  IF num_variables \div 4 > Cardinality(other)
  THEN Ascending((0..num_variables - 1) \ other)
  ELSE SetIteration(SetAddAll([i \in 1..8 |-> -1],
                              Ascending((0..num_variables - 1) \ other), 1))

\* a column is the key plus one
SetColumns(keys) == [f \in 1..Len(keys) |-> keys[f] + 1]

\* the free variables in the order of the loop over them
FreeVariableIndices(num_variables, pivot_indices) ==
  SetColumns(SetDifference(num_variables,
               {pivot_indices[i] - 1 : i \in 1..Len(pivot_indices)}))

DirectionVectorsFor(planes, pivot_indices) ==
  DirectionVectors(planes, pivot_indices,
                   FreeVariableIndices(Dimension(planes[1]), pivot_indices))

ExtractDirectionVectorsForParametrization(planes) ==
  DirectionVectorsFor(planes, IndicesOfFirstNonzeroTermsInEachRow(planes))

RECURSIVE BasepointCoordsFrom(_, _, _, _)
BasepointCoordsFrom(planes, pivot_indices, basepoint_coords, i) ==
  IF i > Len(planes) THEN basepoint_coords
  ELSE IF pivot_indices[i] < 0 THEN basepoint_coords
  ELSE BasepointCoordsFrom(planes, pivot_indices,
         [basepoint_coords EXCEPT ![pivot_indices[i]] = planes[i].constant_term],
         i + 1)

ExtractBasepointForParametrization(planes) ==
  BasepointCoordsFrom(planes, IndicesOfFirstNonzeroTermsInEachRow(planes),
                      [x \in 1..Dimension(planes[1]) |-> Zero], 1)

\* the values compute_solution can return, and the exception it lets through
Parametrization(basepoint, direction_vectors) ==
  [type |-> "Parametrization", basepoint |-> basepoint,
   direction_vectors |-> direction_vectors, str |-> ""]

Vector(coordinates) ==
  [type |-> "Vector", basepoint |-> coordinates, direction_vectors |-> <<>>,
   str |-> ""]

Str(message) ==
  [type |-> "str", basepoint |-> <<>>, direction_vectors |-> <<>>,
   str |-> message]

Raised(message) ==
  [type |-> "Exception", basepoint |-> <<>>, direction_vectors |-> <<>>,
   str |-> message]

None == [type |-> "None", basepoint |-> <<>>, direction_vectors |-> <<>>, str |-> ""]

\* do_gaussian_elminitation_and_parametrize_solution after its first line
ParametrizeSolution(rref) ==
  IF rref = DivisionByZero THEN Raised("DivisionByZero")
  ELSE IF RaiseExceptionIfContradictoryEquation(rref) THEN Raised(NO_SOLUTIONS_MSG)
  ELSE Parametrization(ExtractBasepointForParametrization(rref),
                       ExtractDirectionVectorsForParametrization(rref))

DoGaussianEliminationAndParametrizeSolution(planes) ==
  ParametrizeSolution(ComputeRref(planes))

\* do_gaussian_elminitation_and_extract_solution after its first line
ExtractSolution(rref) ==
  IF rref = DivisionByZero THEN Raised("DivisionByZero")
  ELSE IF RaiseExceptionIfContradictoryEquation(rref) THEN Raised(NO_SOLUTIONS_MSG)
  ELSE IF RaiseExceptionIfTooFewPivots(rref) THEN Raised(INF_SOLUTIONS_MSG)
  ELSE Vector([i \in 1..Dimension(rref[1]) |-> rref[i].constant_term])

DoGaussianEliminationAndExtractSolution(planes) ==
  ExtractSolution(ComputeRref(planes))

SolveExtract(planes) == DoGaussianEliminationAndExtractSolution(planes)

\* the call compute_solution makes
Solve(planes) == DoGaussianEliminationAndParametrizeSolution(planes)

ExceptReraise(r) == r

\* the except clause of compute_solution: 'No solutions' is returned, any
\* other exception is raised again
Except(r) ==
  IF r.type = "Exception" /\ r.str = NO_SOLUTIONS_MSG THEN Str(r.str) ELSE r

ComputeSolution(planes) == Except(Solve(planes))

(***************************************************************************)
(* The program: a caller that builds one system s and calls its methods    *)
(***************************************************************************)
\* a coefficient that is near zero and is not zero
Tiny == <<5, -(EpsExp + 1)>>

\* a coefficient of more digits than the context keeps
Huge == <<1, Prec>>

Coefs == {Zero, One, Dec(3), Tiny, Huge}

Consts == {Zero, One}

\* hyperplanes of the dimension of a Line
Lines == {Hyperplane(n, k) : n \in [1..LineDimension -> Coefs], k \in Consts}

\* hyperplanes of the dimension of a Plane, with the coefficients of the
\* test cases of linsys.py
Planes == {Hyperplane(n, k) : n \in [1..PlaneDimension -> {Zero, One}],
                              k \in {One, Dec(2)}}

\* the lines and the planes of the systems of one more row
TestLines == {Hyperplane(<<One, Dec(3)>>, One), Hyperplane(<<Dec(3), One>>, Zero),
              Hyperplane(<<Zero, One>>, One), Hyperplane(<<Zero, Zero>>, One)}

TestPlanes == {Hyperplane(<<One, One, One>>, One),
               Hyperplane(<<Zero, One, Zero>>, Dec(2)),
               Hyperplane(<<One, One, Dec(-1)>>, Dec(3)),
               Hyperplane(<<One, Zero, Dec(-2)>>, Dec(2))}

\* a coefficient of one digit more than the context keeps, which Decimal(x)
\* does not round
Long == <<Pow10(Prec) + 5, -Prec>>

\* lines with such coefficients
LongLines == {Hyperplane(<<Long, One>>, Long), Hyperplane(<<One, Dec(3)>>, One)}

PlaneLists ==
  UNION {[1..n -> Lines \cup Planes] : n \in 1..MaxRows}
    \cup [1..MaxRows + 1 -> TestLines] \cup [1..MaxRows + 1 -> TestPlanes]
    \cup [1..2 -> LongLines]

\* the coefficients of the systems whose solution is computed
SolveCoefs == {Zero, One, Dec(7), Dec(9), Tiny, Huge}

SolveLines ==
  {Hyperplane(n, k) : n \in [1..LineDimension -> SolveCoefs], k \in Consts}

\* a dimension of more free variables than the first table of a set orders
WideDimension == 9

\* the hyperplane x_i = 1
UnitHyperplane(i) ==
  Hyperplane([x \in 1..WideDimension |-> IF x = i THEN One ELSE Zero], One)

WideSystems == {[i \in 1..n |-> UnitHyperplane(i)] : n \in {1, WideDimension - 4}}

\* the first system of the 'GE Solution' test cases: 5.862 is <<5862, -3>>
GeSolutionSystem1 ==
  <<Hyperplane(<<<<5862, -3>>, <<1178, -3>>, <<-10366, -3>>>>, <<-815, -2>>),
    Hyperplane(<<<<-2931, -3>>, <<-589, -3>>, <<5183, -3>>>>, <<-4075, -3>>)>>

Systems ==
  UNION {[1..n -> SolveLines] \cup [1..n -> Planes] : n \in 1..MaxRows}
    \cup [1..MaxRows + 1 -> TestLines] \cup [1..MaxRows + 1 -> TestPlanes]
    \cup WideSystems \cup {GeSolutionSystem1}

\* the coefficients the caller passes to the row operations
Coefficients == {Zero, Dec(-10), Dec(3)}

\* the hyperplanes the caller assigns to rows
Assigned == {Hyperplane(<<One, Dec(2)>>, Dec(3)),
             Hyperplane(<<One, Zero, One>>, Dec(3))}

\* the last call: its name, the object it is called on, its arguments, the
\* heap before it and the name of the call before it
Call(op, target, row1, row2, coefficient) ==
  [op |-> op, target |-> target, before |-> heap, row1 |-> row1,
   row2 |-> row2, coefficient |-> coefficient, prev |-> last.op]

\* no compute_triangular_form is running
Idle == [pc |-> "idle", i |-> 0, j |-> 0]

\* s = LinearSystem(planes)
Construct(planes) ==
  /\ heap = IF SameDimension(planes) THEN <<planes, <<>>>> ELSE <<<<>>, <<>>>>
  /\ dimension = IF SameDimension(planes)
                 THEN <<Dimension(planes[1]), 0>> ELSE <<0, 0>>
  /\ error = IF SameDimension(planes) THEN "" ELSE PLANES_SAME_DIM_MSG
  /\ last = [op |-> "__init__", target |-> 1, before |-> <<planes, <<>>>>,
             row1 |-> 0, row2 |-> 0, coefficient |-> Zero, prev |-> ""]
  /\ ret = 0
  /\ solution = None
  /\ nops = 0
  /\ ncalls = 0
  /\ frame = Idle

Init == \E planes \in PlaneLists : Construct(planes)

InitSolve == \E planes \in Systems : Construct(planes)

\* the LinearSystem objects the caller holds
Targets == {r \in {1, ret} : r # 0 /\ heap[r] # <<>>}

Rows(r) == 1..Len(heap[r])

\* r.swap_rows(row1, row2)
SwapRowsCall(r, row1, row2) ==
  /\ nops < MaxOps
  /\ heap' = [heap EXCEPT ![r] = SwapRows(heap[r], row1, row2)]
  /\ last' = Call("swap_rows", r, row1, row2, Zero)
  /\ error' = ""
  /\ nops' = nops + 1
  /\ UNCHANGED <<ret, dimension, solution, ncalls, frame>>

\* r.multiply_coefficient_and_row(coefficient, row)
MultiplyCall(r, coefficient, row) ==
  /\ nops < MaxOps
  /\ heap' = [heap EXCEPT ![r] = MultiplyCoefficientAndRow(heap[r], coefficient, row)]
  /\ last' = Call("multiply_coefficient_and_row", r, row, row, coefficient)
  /\ error' = ""
  /\ nops' = nops + 1
  /\ UNCHANGED <<ret, dimension, solution, ncalls, frame>>

\* r.multiply_coefficient_and_row(1 / coefficient, row) right after
\* r.multiply_coefficient_and_row(coefficient, row); last.before stays the
\* heap before the pair of calls
MultiplyBackCall(r) ==
  /\ last.op = "multiply_coefficient_and_row"
  /\ last.target = r
  /\ last.coefficient # Zero
  /\ heap' = [heap EXCEPT ![r] = MultiplyCoefficientAndRow(
                heap[r], Divide(One, last.coefficient), last.row1)]
  /\ last' = [last EXCEPT !.op = "multiply_coefficient_and_row back",
                          !.prev = last.op]
  /\ error' = ""
  /\ UNCHANGED <<ret, dimension, solution, nops, ncalls, frame>>

\* r.add_multiple_times_row_to_row(coefficient, from_here, to_here)
AddMultipleCall(r, coefficient, from_here, to_here) ==
  /\ nops < MaxOps
  /\ heap' = [heap EXCEPT ![r] =
                AddMultipleTimesRowToRow(heap[r], coefficient, from_here, to_here)]
  /\ last' = Call("add_multiple_times_row_to_row", r, from_here, to_here, coefficient)
  /\ error' = ""
  /\ nops' = nops + 1
  /\ UNCHANGED <<ret, dimension, solution, ncalls, frame>>

\* r[i] = x
SetItemCall(r, i, x) ==
  /\ nops < MaxOps
  /\ heap' = IF SetItemAccepts(dimension[r], x)
             THEN [heap EXCEPT ![r] = SetItem(heap[r], i, x)] ELSE heap
  /\ error' = IF SetItemAccepts(dimension[r], x) THEN "" ELSE PLANES_SAME_DIM_MSG
  /\ last' = Call("__setitem__", r, i, Dimension(x), Zero)
  /\ nops' = nops + 1
  /\ UNCHANGED <<ret, dimension, solution, ncalls, frame>>

DeepcopyShared(h, r) == [heap |-> h, ref |-> r]

\* deepcopy(self): a new object with a copy of the planes
Deepcopy(h, r) == [heap |-> [h EXCEPT ![2] = h[r]], ref |-> 2]

\* the transform has worked on the copy system and returns it
Returns(system, planes) ==
  IF planes = DivisionByZero
  THEN /\ error' = "DivisionByZero"
       /\ UNCHANGED <<heap, ret, dimension>>
  ELSE /\ error' = ""
       /\ heap' = [system.heap EXCEPT ![system.ref] = planes]
       /\ ret' = system.ref
       /\ dimension' = [dimension EXCEPT ![system.ref] = dimension[1]]

\* ret = r.compute_triangular_form()
TriangularFormCall(r) ==
  /\ Returns(Deepcopy(heap, r), ComputeTriangularForm(heap[r]))
  /\ last' = Call("compute_triangular_form", r, 0, 0, Zero)
  /\ solution' = None
  /\ ncalls' = ncalls + 1
  /\ UNCHANGED <<nops, frame>>

\* ret = r.compute_rref()
RrefCall(r) ==
  /\ Returns(Deepcopy(heap, r), ComputeRref(heap[r]))
  /\ last' = Call("compute_rref", r, 0, 0, Zero)
  /\ solution' = None
  /\ ncalls' = ncalls + 1
  /\ UNCHANGED <<nops, frame>>

\* compute_solution returns r or raises it
SolutionReturns(r) ==
  /\ solution' = IF r.type = "Exception" THEN None ELSE r
  /\ error' = IF r.type = "Exception" THEN r.str ELSE ""

\* solution = r.compute_solution()
SolutionCall(r) ==
  /\ SolutionReturns(ComputeSolution(heap[r]))
  /\ last' = Call("compute_solution", r, 0, 0, Zero)
  /\ ncalls' = ncalls + 1
  /\ UNCHANGED <<heap, ret, dimension, nops, frame>>

\* solution = r.do_gaussian_elminitation_and_extract_solution()
ExtractSolutionCall(r) ==
  /\ SolutionReturns(DoGaussianEliminationAndExtractSolution(heap[r]))
  /\ last' = Call("do_gaussian_elminitation_and_extract_solution", r, 0, 0, Zero)
  /\ ncalls' = ncalls + 1
  /\ UNCHANGED <<heap, ret, dimension, nops, frame>>

\* a caller that builds s, works on its rows and calls its methods
Next ==
  \/ \E r \in Targets : \E row1, row2 \in Rows(r) : SwapRowsCall(r, row1, row2)
  \/ \E r \in Targets : \E row \in Rows(r) : \E c \in Coefficients :
       MultiplyCall(r, c, row)
  \/ \E r \in Targets : MultiplyBackCall(r)
  \/ \E r \in Targets : \E from_here, to_here \in Rows(r) : \E c \in Coefficients :
       AddMultipleCall(r, c, from_here, to_here)
  \/ \E r \in Targets : \E i \in Rows(r) : \E x \in Assigned : SetItemCall(r, i, x)
  \/ (heap[1] # <<>> /\ ncalls < MaxCalls /\ TriangularFormCall(1))
  \/ (heap[1] # <<>> /\ ncalls < MaxCalls /\ RrefCall(1))
  \/ (heap[1] # <<>> /\ ncalls < MaxCalls /\ SolutionCall(1))

\* a caller that builds s and calls the transforms, compute_solution and
\* do_gaussian_elminitation_and_extract_solution, on s and on the system a
\* transform has returned
NextSolve ==
  \/ \E r \in Targets : ncalls < MaxSolveCalls /\ TriangularFormCall(r)
  \/ \E r \in Targets : ncalls < MaxSolveCalls /\ RrefCall(r)
  \/ \E r \in Targets : ncalls < MaxSolveCalls /\ SolutionCall(r)
  \/ \E r \in Targets : ncalls < MaxSolveCalls /\ ExtractSolutionCall(r)

\* the fourth system of the 'Triangular Form' test cases
TriangularFormSystem4 ==
  <<Hyperplane(<<Zero, One, One>>, One),
    Hyperplane(<<One, Dec(-1), One>>, Dec(2)),
    Hyperplane(<<One, Dec(2), Dec(-5)>>, Dec(3))>>

InitTriangular ==
  \E planes \in Systems \cup {TriangularFormSystem4} : Construct(planes)

\* a step of compute_triangular_form: the heap after it, the position it
\* leaves, the position it was taken at
Step(op, h, pc, i, j) ==
  /\ heap' = h
  /\ frame' = [pc |-> pc, i |-> i, j |-> j]
  /\ last' = Call(op, 2, frame.i, frame.j, Zero)
  /\ UNCHANGED <<solution, nops>>

\* s.compute_triangular_form() up to its first for: system = deepcopy(self),
\* j = 0
TriangularBegin ==
  /\ frame.pc = "idle" /\ ncalls < MaxCalls /\ heap[1] # <<>>
  /\ Step("deepcopy", Deepcopy(heap, 1).heap, "for", 1, 1)
  /\ dimension' = [dimension EXCEPT ![2] = dimension[1]]
  /\ ncalls' = ncalls + 1
  /\ UNCHANGED <<ret, error>>

\* for i in range(num_equations), and return system after the last row
TriangularFor ==
  /\ frame.pc = "for"
  /\ IF frame.i > Len(heap[2])
     THEN /\ Step("return", heap, "idle", frame.i, frame.j)
          /\ ret' = 2
          /\ error' = ""
     ELSE /\ Step("for", heap, "while", frame.i, frame.j)
          /\ UNCHANGED <<ret, error>>
  /\ UNCHANGED <<dimension, ncalls>>

\* while j < num_variables, and the test of c.is_near_zero()
TriangularWhile ==
  /\ frame.pc = "while"
  /\ IF frame.j > dimension[2]
     THEN Step("while", heap, "for", frame.i + 1, frame.j)
     ELSE IF IsNearZero(heap[2][frame.i].normal_vector[frame.j])
          THEN Step("while", heap, "swap_with_row_below", frame.i, frame.j)
          ELSE Step("while", heap, "clear_coefficients_below", frame.i, frame.j)
  /\ UNCHANGED <<ret, error, dimension, ncalls>>

\* swap_succeeded = system.swap_with_row_below(i, j), and j += 1; continue
\* when it is False
TriangularSwapStep(swap) ==
  IF swap.swap_succeeded
  THEN Step("swap_with_row_below", [heap EXCEPT ![2] = swap.planes],
            "clear_coefficients_below", frame.i, frame.j)
  ELSE Step("swap_with_row_below", [heap EXCEPT ![2] = swap.planes],
            "while", frame.i, frame.j + 1)

TriangularSwap ==
  /\ frame.pc = "swap_with_row_below"
  /\ TriangularSwapStep(SwapWithRowBelow(heap[2], frame.i, frame.j))
  /\ UNCHANGED <<ret, error, dimension, ncalls>>

\* system.clear_coefficients_below(i, j); j += 1; break
TriangularClear ==
  /\ frame.pc = "clear_coefficients_below"
  /\ Step("clear_coefficients_below",
          [heap EXCEPT ![2] = ClearCoefficientsBelow(heap[2], frame.i, frame.j)],
          "for", frame.i + 1, frame.j + 1)
  /\ UNCHANGED <<ret, error, dimension, ncalls>>

\* a caller that builds s and calls s.compute_triangular_form(), whose steps
\* are taken one at a time
NextTriangular ==
  \/ TriangularBegin
  \/ TriangularFor
  \/ TriangularWhile
  \/ TriangularSwap
  \/ TriangularClear

Spec == Init /\ [][Next]_vars

SpecTriangular == InitTriangular /\ [][NextTriangular]_vars

SpecSolve == InitSolve /\ [][NextSolve]_vars

(***************************************************************************)
(* Properties                                                              *)
(***************************************************************************)
RowOperations ==
  {"swap_rows", "multiply_coefficient_and_row", "add_multiple_times_row_to_row",
   "__setitem__"}

Transforms == {"compute_triangular_form", "compute_rref"}

\* C1: after s.compute_triangular_form() or s.compute_rref() the system s has
\* the rows it had before the call, in the same order; the system returned
\* is another object than s; and a row operation on the returned system
\* leaves the rows of s as they were.
C1_TransformLeavesSelfUntouched ==
  /\ last.op \in Transforms =>
       /\ heap[1] = last.before[1]
       /\ error = "" => ret = 2 /\ heap[2] # <<>>
  /\ (last.op \in RowOperations /\ last.target = 2) => heap[1] = last.before[1]

\* a transform has changed the rows of its copy, and a row operation has
\* then changed the returned system
C1_Witness ==
  /\ last.op = "multiply_coefficient_and_row" /\ last.target = 2
  /\ heap[2] # last.before[2]
  /\ last.before[2] # heap[1]

\* C8: swap_rows(i, j) puts the old row j at i and the old row i at j, leaves
\* every other row and the other system as they were, and a second
\* swap_rows(i, j) or swap_rows(j, i) gives back the rows before the call
\* (also for i = j).
C8_SwapRowsExchanges ==
  last.op = "swap_rows" =>
    LET r == last.target
        old == last.before[r]
    IN /\ Len(heap[r]) = Len(old)
       /\ heap[r][last.row1] = old[last.row2]
       /\ heap[r][last.row2] = old[last.row1]
       /\ \A k \in 1..Len(old) : k \notin {last.row1, last.row2} => heap[r][k] = old[k]
       /\ \A o \in {1, 2} \ {r} : heap[o] = last.before[o]
       /\ SwapRows(heap[r], last.row1, last.row2) = old
       /\ SwapRows(heap[r], last.row2, last.row1) = old

\* two different rows of a system of three rows have been swapped
C8_Witness ==
  /\ last.op = "swap_rows" /\ last.row1 # last.row2
  /\ Len(heap[last.target]) = 3
  /\ heap[last.target] # last.before[last.target]

\* C10: every row of a system has the dimension of the system; the row
\* operations and assignments keep the number of rows; the constructor given
\* hyperplanes of different dimensions, and an assignment of a hyperplane of
\* another dimension, raise the dimension-mismatch exception, and the failed
\* assignment leaves the planes as they were.
C10_DimensionInvariant ==
  /\ \A r \in Targets : \A i \in Rows(r) : Dimension(heap[r][i]) = dimension[r]
  /\ last.op \in RowOperations =>
       Len(heap[last.target]) = Len(last.before[last.target])
  /\ last.op = "__init__" =>
       IF \E i, j \in 1..Len(last.before[1]) :
            Dimension(last.before[1][i]) # Dimension(last.before[1][j])
       THEN error = PLANES_SAME_DIM_MSG /\ heap[1] = <<>>
       ELSE error = "" /\ heap[1] = last.before[1]
  /\ last.op = "__setitem__" =>
       IF last.row2 # dimension[last.target]
       THEN error = PLANES_SAME_DIM_MSG /\ heap = last.before
       ELSE error = ""

\* a plane has been assigned to a row of a system of lines
C10_Witness ==
  /\ last.op = "__setitem__" /\ last.row2 = PlaneDimension
  /\ dimension[last.target] = LineDimension
  /\ error = PLANES_SAME_DIM_MSG

(***************************************************************************)
(* The vocabulary of the claims about solutions                            *)
(***************************************************************************)
\* the system the last call was made on, as it was at the call
Self == last.before[last.target]

Solved == last.op = "compute_solution"

\* every coefficient of the row is near zero
NearZeroRow(p) == \A x \in 1..Dimension(p) : IsNearZero(p.normal_vector[x])

\* some row says 0 = k for a k that is not near zero
Contradictory(planes) ==
  \E i \in 1..Len(planes) :
    NearZeroRow(planes[i]) /\ ~IsNearZero(planes[i].constant_term)

\* the column of the first coefficient of the row that is not near zero; 0
\* when there is none
PivotOf(p) ==
  IF NearZeroRow(p) THEN 0
  ELSE CHOOSE x \in 1..Dimension(p) :
         /\ ~IsNearZero(p.normal_vector[x])
         /\ \A y \in 1..x - 1 : IsNearZero(p.normal_vector[y])

PivotRows(planes, col) == {i \in 1..Len(planes) : PivotOf(planes[i]) = col}

PivotColumnsOf(planes) == {PivotOf(planes[i]) : i \in 1..Len(planes)} \ {0}

\* the three outcomes of compute_solution; an exception that is let through
\* is none of them
Outcome(r) ==
  CASE r.type = "str" /\ r.str = NO_SOLUTIONS_MSG -> "no solutions"
    [] r.type = "Parametrization" /\ r.direction_vectors = <<>> -> "unique"
    [] r.type = "Parametrization" /\ r.direction_vectors # <<>> -> "infinite"
    [] OTHER -> "raised"

\* a is near zero, or smaller than b by the tolerance of is_near_zero:
\* |a| < 10^-EpsExp * |b|
Negligible(a, b) ==
  IsNearZero(a) \/ (b # Zero /\ Adjusted(a) + EpsExp < Adjusted(b))

\* equal within the tolerance, absolute or in proportion to the numbers
Close(a, b) == Negligible(Minus(a, b), a) \/ Negligible(Minus(a, b), b)

NearVectors(v, w) ==
  /\ Len(v) = Len(w)
  /\ \A x \in 1..Len(v) : Close(v[x], w[x])

NearRows(p, q) ==
  /\ NearVectors(p.normal_vector, q.normal_vector)
  /\ Close(p.constant_term, q.constant_term)

\* the dot product, in the arithmetic of the context
RECURSIVE DotFrom(_, _, _)
DotFrom(v, w, x) ==
  IF x > Len(v) THEN Zero
  ELSE Plus(Times(v[x], w[x]), DotFrom(v, w, x + 1))

Dot(v, w) == DotFrom(v, w, 1)

\* n . v = k within the tolerance, absolute or in proportion to k or to the
\* product of a coefficient and a coordinate
Satisfies(v, n, k) ==
  \/ Negligible(Minus(Dot(n, v), k), k)
  \/ \E x, y \in 1..Len(n) : Negligible(Minus(Dot(n, v), k), Times(n[x], v[y]))

\* C2: the outcome of compute_solution on the system a transform of s
\* returned is one of no solutions, unique and infinite, and it is the
\* outcome of compute_solution on s; two unique solutions are the same
\* vector (within the tolerance of is_near_zero, absolute or in proportion:
\* the weakest reading of 'equal').
C2_SolutionSetInvariance ==
  (Solved /\ last.target = 2 /\ last.prev \in Transforms) =>
    /\ error = ""
    /\ Outcome(solution) = Outcome(ComputeSolution(heap[1]))
    /\ Outcome(solution) = "unique" =>
         NearVectors(solution.basepoint, ComputeSolution(heap[1]).basepoint)

\* C3: when the reduced form of the system has a row whose coefficients are
\* all near zero and whose constant term is not, compute_solution returns
\* the string 'No solutions': it raises nothing and returns no
\* Parametrization, however many pivots the rows have.
C3_ContradictionReturnsNoSolutions ==
  (Solved /\ ComputeRref(Self) # DivisionByZero /\ Contradictory(ComputeRref(Self))) =>
    /\ error = ""
    /\ solution = Str(NO_SOLUTIONS_MSG)

\* the reduced form has a contradictory row, fewer pivots than columns and a
\* row with a pivot, and compute_solution has returned
C3_Witness ==
  /\ Solved /\ ComputeRref(Self) # DivisionByZero
  /\ Contradictory(ComputeRref(Self))
  /\ PivotColumnsOf(ComputeRref(Self)) # {}
  /\ Cardinality(PivotColumnsOf(ComputeRref(Self))) < dimension[last.target]
  /\ solution = Str(NO_SOLUTIONS_MSG)

C5_ParametrizationStructure ==
  (Solved /\ error = "" /\ solution.type = "Parametrization") =>
    LET rref == ComputeRref(Self)
        columns == 1..dimension[last.target]
        pivots == PivotColumnsOf(rref)
        free == Ascending(columns \ pivots)
    IN /\ Len(solution.direction_vectors) = Len(free)
       /\ \A f \in 1..Len(free) :
            /\ solution.direction_vectors[f][free[f]] = One
            /\ \A p \in pivots : \E i \in PivotRows(rref, p) :
                 solution.direction_vectors[f][p] =
                   Neg(rref[i].normal_vector[free[f]])
            /\ \A g \in columns \ (pivots \cup {free[f]}) :
                 solution.direction_vectors[f][g] = Zero
       /\ \A p \in pivots : \E i \in PivotRows(rref, p) :
            solution.basepoint[p] = rref[i].constant_term
       /\ \A g \in columns \ pivots : solution.basepoint[g] = Zero

\* C6: the basepoint of the Parametrization compute_solution returns for s
\* satisfies every equation of s, and every direction vector is orthogonal
\* to every normal vector of s (within the tolerance of is_near_zero,
\* absolute or in proportion to the numbers: the weakest reading of '=').
C6_ParametrizationSound ==
  (Solved /\ last.target = 1 /\ error = "" /\ solution.type = "Parametrization") =>
    \A i \in 1..Len(heap[1]) :
      /\ Satisfies(solution.basepoint, heap[1][i].normal_vector,
                   heap[1][i].constant_term)
      /\ \A f \in 1..Len(solution.direction_vectors) :
           Satisfies(solution.direction_vectors[f], heap[1][i].normal_vector, Zero)

\* C7: compute_rref of the system compute_rref returned returns a system of
\* the same rows in the same order (within the tolerance of is_near_zero,
\* absolute or in proportion: the weakest reading of 'same').
C7_RrefIdempotent ==
  (last.op = "compute_rref" /\ last.target = 2 /\ last.prev = "compute_rref") =>
    /\ error = ""
    /\ Len(heap[2]) = Len(last.before[2])
    /\ \A i \in 1..Len(heap[2]) : NearRows(heap[2][i], last.before[2][i])

\* r is x up to the rounding of the three operations Decimal(1) / k, k * x
\* and (1 / k) * (k * x): |r - x| <= 2 * 10^(1 - Prec) * |x|
WithinRoundingAt(r, x, e) ==
  Abs(r[1] * Pow10(r[2] - e) - x[1] * Pow10(x[2] - e))
    <= (2 * Abs(x[1]) * Pow10(x[2] - e)) \div Pow10(Prec - 1)

WithinRounding(r, x) ==
  IF x = Zero \/ r = Zero THEN r = x
  ELSE /\ Sign(r[1]) = Sign(x[1])
       /\ Abs(Adjusted(r) - Adjusted(x)) <= 1
       /\ WithinRoundingAt(r, x, IF r[2] < x[2] THEN r[2] ELSE x[2])

\* C9 as stated: multiply_coefficient_and_row(k, row) and then
\* multiply_coefficient_and_row(1 / k, row), for k not zero, give back the
\* normal vector and the constant term of the row exactly and leave the
\* other rows as they were.
C9_MultiplyBackRestoresExactly ==
  last.op = "multiply_coefficient_and_row back" => heap = last.before

\* C9 amended: the two calls leave every other row, and the other system, as
\* they were, and give back every coefficient x of the row and its constant
\* term up to the rounding of the context, within 2 * 10^(1 - prec) * |x|;
\* they give them back exactly when k is a power of ten, positive or
\* negative, and x has no more digits than the context keeps.
C9_MultiplyBackRestoresWithinRounding ==
  last.op = "multiply_coefficient_and_row back" =>
    LET r == last.target
        row == last.row1
        old == last.before[r]
    IN /\ Len(heap[r]) = Len(old)
       /\ \A k \in 1..Len(old) : k # row => heap[r][k] = old[k]
       /\ \A o \in {1, 2} : o # r => heap[o] = last.before[o]
       /\ \A x \in 1..dimension[r] :
            WithinRounding(heap[r][row].normal_vector[x], old[row].normal_vector[x])
       /\ WithinRounding(heap[r][row].constant_term, old[row].constant_term)
       /\ (/\ Abs(last.coefficient[1]) = 1
           /\ \A x \in 1..dimension[r] :
                Digits(Abs(old[row].normal_vector[x][1])) <= Prec
           /\ Digits(Abs(old[row].constant_term[1])) <= Prec)
            => heap[r][row] = old[row]

\* a row has been multiplied by 3 and by 1 / 3 and is not the row it was;
\* another has been multiplied by -10 and by -1 / 10 in a system of two rows
C9_Witness ==
  /\ last.op = "multiply_coefficient_and_row back"
  /\ \/ last.coefficient = Dec(3) /\ heap # last.before
     \/ /\ last.coefficient = Dec(-10) /\ Len(heap[last.target]) > 1
        /\ heap[last.target][last.row1].constant_term # Zero

\* b = f * a exactly, for f = num / 2
HalfMultiple(b, a, num) == Norm(2 * b[1], b[2]) = Norm(num * a[1], a[2])

\* C11 as stated: in the system of normal vectors (5.862, 1.178, -10.366) and
\* (-2.931, -0.589, 5.183) and constant terms -8.15 and -4.075, the second
\* normal vector and the second constant term are -0.5 times the first, and
\* compute_solution returns a Parametrization with direction vectors, not
\* 'No solutions'.
C11_SameHyperplaneInfinitelyMany ==
  (Solved /\ Self = GeSolutionSystem1) =>
    /\ \A x \in 1..PlaneDimension :
         HalfMultiple(Self[2].normal_vector[x], Self[1].normal_vector[x], -1)
    /\ HalfMultiple(Self[2].constant_term, Self[1].constant_term, -1)
    /\ error = ""
    /\ Outcome(solution) = "infinite"

\* C11 amended: in that system the second normal vector is -0.5 times the
\* first and the second constant term is +0.5 times the first, so the two
\* equations describe distinct parallel hyperplanes, and compute_solution
\* returns the string 'No solutions' and raises nothing.
C11_ParallelPlanesNoSolutions ==
  (Solved /\ Self = GeSolutionSystem1) =>
    /\ \A x \in 1..PlaneDimension :
         HalfMultiple(Self[2].normal_vector[x], Self[1].normal_vector[x], -1)
    /\ HalfMultiple(Self[2].constant_term, Self[1].constant_term, 1)
    /\ error = ""
    /\ solution = Str(NO_SOLUTIONS_MSG)

\* compute_solution has returned for that system, whose triangular form has
\* a second row of near-zero coefficients and a constant term that is not
C11_Witness ==
  /\ Solved /\ last.target = 1 /\ heap[1] = GeSolutionSystem1
  /\ NearZeroRow(ComputeTriangularForm(heap[1])[2])
  /\ ~IsNearZero(ComputeTriangularForm(heap[1])[2].constant_term)
  /\ solution = Str(NO_SOLUTIONS_MSG)

(***************************************************************************)
(* The steps of compute_triangular_form                                    *)
(***************************************************************************)
TriangularSteps ==
  {"for", "while", "swap_with_row_below", "clear_coefficients_below", "return"}

\* the order of the positions of one turn of the loops
Rank(pc) ==
  CASE pc = "for" -> 0
    [] pc = "while" -> 1
    [] pc = "swap_with_row_below" -> 2
    [] pc = "clear_coefficients_below" -> 3
    [] OTHER -> 4

\* the position a step was taken at, from the name of the step and the
\* position it has left
PcBefore ==
  IF last.op = "return" THEN "for" ELSE last.op

\* rows whose pivot columns do not increase with the row index, a
\* coefficient below a pivot that is not near zero, a row with a pivot after
\* a row without
RowEchelonForm(planes) ==
  \A a, b \in 1..Len(planes) :
    a < b =>
      /\ (PivotOf(planes[a]) # 0 /\ PivotOf(planes[b]) # 0)
           => PivotOf(planes[a]) < PivotOf(planes[b])
      /\ PivotOf(planes[a]) # 0
           => IsNearZero(planes[b].normal_vector[PivotOf(planes[a])])
      /\ PivotOf(planes[a]) = 0 => NearZeroRow(planes[b])

\* the system the steps of compute_triangular_form return is the one the
\* call returns
TriangularStepsAgree ==
  last.op = "return" => heap[2] = ComputeTriangularForm(heap[1])

\* C12: every step of compute_triangular_form leaves the column cursor j
\* and the row i where they were or higher, never beyond the number of
\* columns and of rows plus one, and moves on in the order (i, j, position),
\* so the pass terminates; the system it returns is in row-echelon form:
\* the pivot columns of the rows that have one increase strictly with the
\* row index, every coefficient below a pivot in the column of the pivot is
\* near zero, and every row at or after the first row without a pivot has a
\* normal vector that is near zero throughout.
C12_TriangularFormIsRowEchelon ==
  /\ last.op \in TriangularSteps =>
       /\ frame.j >= last.row2 /\ frame.j <= dimension[2] + 1
       /\ frame.i >= last.row1 /\ frame.i <= Len(heap[2]) + 1
       /\ \/ frame.i > last.row1
          \/ frame.j > last.row2
          \/ Rank(frame.pc) > Rank(PcBefore)
  /\ last.op = "return" => RowEchelonForm(heap[2])

\* the rows below row i whose coefficient in column j is not near zero
RowsBelowToSwap(planes, i, j) ==
  {k \in i + 1..Len(planes) : ~IsNearZero(planes[k].normal_vector[j])}

Smallest(S) == CHOOSE k \in S : \A m \in S : k <= m

\* the multiple of row i that clear_coefficients_below adds to row k
Alpha(planes, i, j, k) ==
  Divide(Neg(planes[k].normal_vector[j]), planes[i].normal_vector[j])

\* row is the row to plus c times the row from, coefficient by coefficient
IsRowPlusMultiple(row, c, from, to) ==
  /\ \A x \in 1..Dimension(to) :
       row.normal_vector[x] =
         Plus(Times(from.normal_vector[x], c), to.normal_vector[x])
  /\ row.constant_term = Plus(Times(from.constant_term, c), to.constant_term)

\* C13: in compute_triangular_form, swap_with_row_below is called at (i, j)
\* only when the coefficient there is near zero; it swaps row i with the row
\* of the smallest index k > i whose coefficient in column j is not near
\* zero and changes no other row; when there is no such row it changes
\* nothing and only j advances, by one.  clear_coefficients_below leaves
\* the rows up to i as they were and adds a multiple of row i to each row
\* below i.  No other step changes a row, and no step changes s.
C13_SwapsTopmostRowBelow ==
  last.op \in TriangularSteps =>
    LET i == last.row1
        j == last.row2
        old == last.before[2]
        new == heap[2]
    IN /\ Len(new) = Len(old)
       /\ heap[1] = last.before[1]
       /\ last.op = "swap_with_row_below" =>
            /\ IsNearZero(old[i].normal_vector[j])
            /\ IF RowsBelowToSwap(old, i, j) = {}
               THEN new = old /\ frame = [pc |-> "while", i |-> i, j |-> j + 1]
               ELSE /\ new[i] = old[Smallest(RowsBelowToSwap(old, i, j))]
                    /\ new[Smallest(RowsBelowToSwap(old, i, j))] = old[i]
                    /\ \A k \in 1..Len(old) :
                         k \notin {i, Smallest(RowsBelowToSwap(old, i, j))}
                           => new[k] = old[k]
                    /\ frame.i = i /\ frame.j = j
       /\ last.op = "clear_coefficients_below" =>
            /\ \A k \in 1..i : new[k] = old[k]
            /\ \A k \in i + 1..Len(old) :
                 IsRowPlusMultiple(new[k], Alpha(old, i, j, k), old[i], old[k])
       /\ last.op \notin {"swap_with_row_below", "clear_coefficients_below"}
            => new = old

\* swap_with_row_below has swapped row i with the first of two rows below
\* it that it could swap with, in a system of three rows
C13_Witness ==
  /\ last.op = "swap_with_row_below"
  /\ Cardinality(RowsBelowToSwap(last.before[2], last.row1, last.row2)) = 2
  /\ heap[2][last.row1] = last.before[2][last.row1 + 1]
  /\ heap[2] # last.before[2]

\* C14: in the system compute_rref returns, every row that has a pivot in the
\* triangular form has the coefficient one, exactly, in its pivot column,
\* and every other row, above and below, has the coefficient zero in that
\* column; a row that has no pivot in the triangular form is the row of the
\* triangular form, normal vector and constant term.
C14_RrefPivotsAreOne ==
  (last.op = "compute_rref" /\ error = "") =>
    LET tf == ComputeTriangularForm(Self)
        rref == heap[2]
    IN /\ Len(rref) = Len(tf)
       /\ \A i \in 1..Len(tf) :
            IF PivotOf(tf[i]) = 0 THEN rref[i] = tf[i]
            ELSE /\ rref[i].normal_vector[PivotOf(tf[i])] = One
                 /\ \A k \in 1..Len(tf) :
                      k # i => rref[k].normal_vector[PivotOf(tf[i])] = Zero

\* the call add_multiple_times_row_to_row(c, source, target) has changed, in
\* the system it was made on, the row target only, to c times the old row
\* source plus the old row target, and nothing in the other system
AddedMultiple ==
  LET r == last.target
      old == last.before[r]
  IN /\ Len(heap[r]) = Len(old)
     /\ IsRowPlusMultiple(heap[r][last.row2], last.coefficient,
                          old[last.row1], old[last.row2])
     /\ \A k \in 1..Len(old) : k # last.row2 => heap[r][k] = old[k]
     /\ \A o \in {1, 2} : o # r => heap[o] = last.before[o]

\* C15 as stated: for distinct rows source and target,
\* add_multiple_times_row_to_row(c, source, target) sets the row target to c
\* times the old row source plus the old row target, normal vector and
\* constant term, and leaves every other row, the row source among them, as
\* it was; with c = 0 the whole system is as it was.
C15_AddMultipleZeroChangesNothing ==
  (last.op = "add_multiple_times_row_to_row" /\ last.row1 # last.row2) =>
    /\ AddedMultiple
    /\ last.coefficient = Zero => heap = last.before

\* every coefficient and the constant term of p, rounded to the precision
\* of the context
RoundedRow(p) ==
  Hyperplane([x \in 1..Dimension(p) |->
                Round(p.normal_vector[x][1], p.normal_vector[x][2])],
             Round(p.constant_term[1], p.constant_term[2]))

\* C15 amended: the same, but with c = 0 the row target is the old row
\* target rounded to the precision of the context, coefficient by
\* coefficient: the whole system is as it was when no coefficient of that row
\* and not its constant term has more digits than the context keeps.
C15_AddMultipleZeroRoundsTarget ==
  (last.op = "add_multiple_times_row_to_row" /\ last.row1 # last.row2) =>
    /\ AddedMultiple
    /\ last.coefficient = Zero =>
         LET r == last.target
             old == last.before[r]
         IN /\ heap[r][last.row2] = RoundedRow(old[last.row2])
            /\ (/\ \A x \in 1..dimension[r] :
                     Digits(Abs(old[last.row2].normal_vector[x][1])) <= Prec
                /\ Digits(Abs(old[last.row2].constant_term[1])) <= Prec)
                 => heap = last.before

\* zero times another row has been added to a row that has a coefficient of
\* more digits than the context keeps, and the row is not the row it was
C15_Witness ==
  /\ last.op = "add_multiple_times_row_to_row" /\ last.row1 # last.row2
  /\ last.coefficient = Zero
  /\ last.before[last.target][last.row2].normal_vector[1] = Long
  /\ heap # last.before

\* C16: when do_gaussian_elminitation_and_extract_solution returns a Vector,
\* every column v is the pivot column of exactly one row of the reduced
\* system, which is row v, and coordinate v of the Vector is the constant
\* term of that row, also when the system has more rows than columns.
C16_ExtractReadsPivotRows ==
  (/\ last.op = "do_gaussian_elminitation_and_extract_solution"
   /\ error = "" /\ solution.type = "Vector") =>
    /\ Len(solution.basepoint) = dimension[last.target]
    /\ \A v \in 1..dimension[last.target] :
         /\ PivotRows(ComputeRref(Self), v) = {v}
         /\ solution.basepoint[v] = ComputeRref(Self)[v].constant_term

====
